---- MODULE Spec2Model ----
(***************************************************************************)
(* Model of class Graph of src/js/script.js: the adjacency Map, the two    *)
(* mutators addVertex/addEdge, the traversals bfs/dfs executed statement   *)
(* by statement, and the projection getAdjacencyMatrix.                    *)
(***************************************************************************)
EXTENDS Integers, Sequences, FiniteSets, TLC

\* Vertex identifiers used by the callers of the model: JavaScript numbers.
Vertices == {1, 2, 3, 10}

\* Bound on the total number of neighbor entries stored in the graph.
MaxEntries == 3

VARIABLES
    adjacencyList,  \* this.adjacencyList: the Map, keys to neighbor arrays
    call,           \* the call being executed, or the last one that returned
    pc,             \* position of the running call; "idle" between calls
    visited,        \* local `visited` of bfs/dfs
    queue,          \* local `queue` of bfs
    result,         \* local `result` of bfs/dfs, the returned value
    vertex,         \* local `vertex` of the bfs while-body
    iter,           \* position of the bfs for-of iterator over `neighbors`
    stack,          \* active dfsHelper calls: vertex and for-of position
    vertices,       \* `vertices` returned by getAdjacencyMatrix
    matrix          \* `matrix` returned by getAdjacencyMatrix

vars == <<adjacencyList, call, pc, visited, queue, result, vertex, iter,
          stack, vertices, matrix>>

----------------------------------------------------------------------------
\* Map operations.  has/get/set do not depend on the insertion order of the
\* entries, so the Map is the function from its keys to their values; the
\* one place that iterates the Map, keys() in getAdjacencyMatrix, takes the
\* keys in every possible order.

Keys(m) == DOMAIN m

Has(m, v) == v \in DOMAIN m

Get(m, v) == m[v]

MapSet(m, v, val) == [x \in DOMAIN m \cup {v} |-> IF x = v THEN val ELSE m[x]]

Push(m, v, x) == [m EXCEPT ![v] = Append(@, x)]

GetOrEmptyMissingYields(m, v) == IF Has(m, v) THEN Get(m, v) ELSE <<1>>

GetOrEmpty(m, v) == IF Has(m, v) THEN Get(m, v) ELSE <<>>

TotalEntries(m) ==
    LET RECURSIVE Sum(_)
        Sum(S) == IF S = {} THEN 0
                  ELSE LET v == CHOOSE x \in S : TRUE
                       IN Len(m[v]) + Sum(S \ {v})
    IN Sum(DOMAIN m)

----------------------------------------------------------------------------
\* addVertex / addEdge

addVertexOverwrites(m, v) == MapSet(m, v, <<>>)

addVertex(m, v) == IF ~Has(m, v) THEN MapSet(m, v, <<>>) ELSE m

addEdgeAlwaysBoth(m, vertex1, vertex2, directed) ==
    LET m1 == addVertex(addVertex(m, vertex1), vertex2)
    IN Push(Push(m1, vertex1, vertex2), vertex2, vertex1)

addEdge(m, vertex1, vertex2, directed) ==
    LET m1 == addVertex(m, vertex1)
        m2 == addVertex(m1, vertex2)
        m3 == Push(m2, vertex1, vertex2)
    IN IF ~directed THEN Push(m3, vertex2, vertex1) ELSE m3

----------------------------------------------------------------------------
\* Init and the calls that mutate the graph

Init ==
    /\ adjacencyList = <<>>
    /\ call = [op |-> "none", args |-> <<>>]
    /\ pc = "idle"
    /\ visited = {}
    /\ queue = <<>>
    /\ result = <<>>
    /\ vertex = 0
    /\ iter = 0
    /\ stack = <<>>
    /\ vertices = <<>>
    /\ matrix = <<>>

AddVertex(v) ==
    /\ pc = "idle"
    /\ adjacencyList' = addVertex(adjacencyList, v)
    /\ call' = [op |-> "addVertex", args |-> <<v>>]
    /\ pc' = "returned"
    /\ UNCHANGED <<visited, queue, result, vertex, iter, stack, vertices,
                   matrix>>

AddEdge(a, b, directed) ==
    /\ pc = "idle"
    /\ TotalEntries(adjacencyList) + (IF directed THEN 1 ELSE 2) <= MaxEntries
    /\ adjacencyList' = addEdge(adjacencyList, a, b, directed)
    /\ call' = [op |-> "addEdge", args |-> <<a, b, directed>>]
    /\ pc' = "returned"
    /\ UNCHANGED <<visited, queue, result, vertex, iter, stack, vertices,
                   matrix>>

----------------------------------------------------------------------------
\* bfs(start), one statement group per step

ShiftKeepsFront(q) == q

Shift(q) == Tail(q)

NotYetVisitedAlways(vis, v) == TRUE

NotYetVisited(vis, v) == v \notin vis

EnqueueAtFront(q, n) == <<n>> \o q

Enqueue(q, n) == Append(q, n)

\* const visited = new Set(); const queue = [start]; const result = [];
BfsCall(start) ==
    /\ pc = "idle"
    /\ call' = [op |-> "bfs", args |-> <<start>>]
    /\ visited' = {}
    /\ queue' = <<start>>
    /\ result' = <<>>
    /\ pc' = "bfs_while"
    /\ UNCHANGED <<adjacencyList, vertex, iter, stack, vertices, matrix>>

\* while (queue.length > 0) is false: return result
BfsReturn ==
    /\ pc = "bfs_while"
    /\ Len(queue) = 0
    /\ pc' = "returned"
    /\ UNCHANGED <<adjacencyList, call, visited, queue, result, vertex, iter,
                   stack, vertices, matrix>>

\* vertex = queue.shift(); if (!visited.has(vertex)) { add; push; for ... }
BfsDequeue ==
    /\ pc = "bfs_while"
    /\ Len(queue) > 0
    /\ vertex' = Head(queue)
    /\ queue' = Shift(queue)
    /\ IF NotYetVisited(visited, Head(queue))
       THEN /\ visited' = visited \cup {Head(queue)}
            /\ result' = Append(result, Head(queue))
            /\ iter' = 1
            /\ pc' = "bfs_for"
       ELSE /\ UNCHANGED <<visited, result, iter>>
            /\ pc' = "bfs_while"
    /\ UNCHANGED <<adjacencyList, call, stack, vertices, matrix>>

\* one round of: for (const neighbor of neighbors) if (!visited.has) push
BfsFor ==
    /\ pc = "bfs_for"
    /\ LET neighbors == GetOrEmpty(adjacencyList, vertex)
       IN IF iter > Len(neighbors)
          THEN /\ pc' = "bfs_while"
               /\ UNCHANGED <<queue, iter>>
          ELSE /\ queue' = IF neighbors[iter] \notin visited
                           THEN Enqueue(queue, neighbors[iter])
                           ELSE queue
               /\ iter' = iter + 1
               /\ pc' = "bfs_for"
    /\ UNCHANGED <<adjacencyList, call, visited, result, vertex, stack,
                   vertices, matrix>>

----------------------------------------------------------------------------
\* dfs(start): the call stack of dfsHelper made explicit

ShouldRecurseAlways(vis, n) == TRUE

ShouldRecurse(vis, n) == n \notin vis

NeighborAtReversed(neighbors, k) == neighbors[Len(neighbors) + 1 - k]

NeighborAt(neighbors, k) == neighbors[k]

\* const visited = new Set(); const result = []; dfsHelper(start) is entered
DfsCall(start) ==
    /\ pc = "idle"
    /\ call' = [op |-> "dfs", args |-> <<start>>]
    /\ visited' = {start}
    /\ result' = <<start>>
    /\ stack' = <<[vertex |-> start, iter |-> 1]>>
    /\ pc' = "dfs"
    /\ UNCHANGED <<adjacencyList, queue, vertex, iter, vertices, matrix>>

\* one round of the for-of of the innermost dfsHelper, or its return
DfsStep ==
    /\ pc = "dfs"
    /\ LET top == stack[Len(stack)]
           neighbors == GetOrEmpty(adjacencyList, top.vertex)
           outer == SubSeq(stack, 1, Len(stack) - 1)
       IN IF top.iter > Len(neighbors)
          THEN /\ stack' = outer
               /\ pc' = IF Len(outer) = 0 THEN "returned" ELSE "dfs"
               /\ UNCHANGED <<visited, result>>
          ELSE LET neighbor == NeighborAt(neighbors, top.iter)
                   advanced == Append(outer, [top EXCEPT !.iter = @ + 1])
               IN IF ShouldRecurse(visited, neighbor)
                  THEN /\ visited' = visited \cup {neighbor}
                       /\ result' = Append(result, neighbor)
                       /\ stack' = Append(advanced,
                                          [vertex |-> neighbor, iter |-> 1])
                       /\ pc' = "dfs"
                  ELSE /\ stack' = advanced
                       /\ pc' = "dfs"
                       /\ UNCHANGED <<visited, result>>
    /\ UNCHANGED <<adjacencyList, call, queue, vertex, iter, vertices, matrix>>

----------------------------------------------------------------------------
\* getAdjacencyMatrix()

\* Number::toString for a non-negative integer, as UTF-16 code units
RECURSIVE NumberToString(_)
NumberToString(n) ==
    IF n < 10 THEN <<48 + n>> ELSE Append(NumberToString(n \div 10), 48 + (n % 10))

\* xString < yString on code units
RECURSIVE StringLess(_, _)
StringLess(x, y) ==
    IF Len(y) = 0 THEN FALSE
    ELSE IF Len(x) = 0 THEN TRUE
    ELSE IF Head(x) # Head(y) THEN Head(x) < Head(y)
    ELSE StringLess(Tail(x), Tail(y))

\* SortCompare of Array.prototype.sort called without a comparator
SortCompare(x, y) ==
    IF StringLess(NumberToString(x), NumberToString(y)) THEN -1
    ELSE IF StringLess(NumberToString(y), NumberToString(x)) THEN 1
    ELSE 0

\* insert x into the sorted sequence s, after the elements not above it
RECURSIVE Insert(_, _)
Insert(s, x) ==
    IF Len(s) = 0 THEN <<x>>
    ELSE IF SortCompare(x, Head(s)) < 0 THEN <<x>> \o s
    ELSE <<Head(s)>> \o Insert(Tail(s), x)

RECURSIVE Sort(_)
Sort(s) ==
    IF Len(s) = 0 THEN <<>>
    ELSE Insert(Sort(SubSeq(s, 1, Len(s) - 1)), s[Len(s)])

\* Array.from(map.keys()): the keys in some insertion order
KeysArrays(m) ==
    {s \in [1..Cardinality(DOMAIN m) -> DOMAIN m] :
        \A k, l \in 1..Cardinality(DOMAIN m) : s[k] = s[l] => k = l}

Includes(s, x) == \E k \in 1..Len(s) : s[k] = x

Occurrences(s, x) == Cardinality({k \in 1..Len(s) : s[k] = x})

CellCounts(neighbors, vertex2) == Occurrences(neighbors, vertex2)

Cell(neighbors, vertex2) == IF Includes(neighbors, vertex2) THEN 1 ELSE 0

getAdjacencyMatrix(m, keys) ==
    LET vs == Sort(keys)
        size == Len(vs)
    IN [vertices |-> vs,
        matrix |-> [r \in 1..size |->
                      [c \in 1..size |-> Cell(Get(m, vs[r]), vs[c])]]]

GetAdjacencyMatrix ==
    /\ pc = "idle"
    /\ call' = [op |-> "getAdjacencyMatrix", args |-> <<>>]
    /\ \E keys \in KeysArrays(adjacencyList) :
          /\ vertices' = getAdjacencyMatrix(adjacencyList, keys).vertices
          /\ matrix' = getAdjacencyMatrix(adjacencyList, keys).matrix
    /\ pc' = "returned"
    /\ UNCHANGED <<adjacencyList, visited, queue, result, vertex, iter, stack>>

\* the caller is done with the returned value; the call's locals are gone
Discard ==
    /\ pc = "returned"
    /\ pc' = "idle"
    /\ call' = [op |-> "none", args |-> <<>>]
    /\ visited' = {}
    /\ queue' = <<>>
    /\ result' = <<>>
    /\ vertex' = 0
    /\ iter' = 0
    /\ stack' = <<>>
    /\ vertices' = <<>>
    /\ matrix' = <<>>
    /\ UNCHANGED adjacencyList

----------------------------------------------------------------------------

Mutate ==
    \/ \E v \in Vertices : AddVertex(v)
    \/ \E a \in Vertices, b \in Vertices, d \in BOOLEAN : AddEdge(a, b, d)

Begin ==
    \/ \E start \in Vertices : BfsCall(start)
    \/ \E start \in Vertices : DfsCall(start)

\* the steps of a call that has begun; the host runs them to completion
Run ==
    \/ BfsReturn
    \/ BfsDequeue
    \/ BfsFor
    \/ DfsStep

Next ==
    \/ Mutate
    \/ Begin
    \/ Run
    \/ GetAdjacencyMatrix
    \/ Discard

Spec == Init /\ [][Next]_vars

\* A synchronous call is never abandoned half way: its steps are taken.
LiveSpec == Spec /\ WF_vars(Run)

----------------------------------------------------------------------------
\* Graph-theoretic notions the properties are stated with

Range(s) == {s[k] : k \in 1..Len(s)}

NoDuplicates(s) == \A k \in 1..Len(s), l \in 1..Len(s) : s[k] = s[l] => k = l

\* neighbor sequence of v in the current graph; empty without an entry
Adj(v) == IF v \in DOMAIN adjacencyList THEN adjacencyList[v] ELSE <<>>

Successors(S) == UNION {Range(Adj(v)) : v \in S}

RECURSIVE Closure(_)
Closure(S) == IF Successors(S) \subseteq S THEN S ELSE Closure(S \cup Successors(S))

Reachable(start) == Closure({start})

\* minimum edge count from start to v, or -1 when v is unreachable
Dist(start, v) ==
    LET RECURSIVE Grow(_, _)
        Grow(S, k) == IF v \in S THEN k ELSE Grow(S \cup Successors(S), k + 1)
    IN IF v \in Reachable(start) THEN Grow({start}, 0) ELSE -1

SetMax(S) == CHOOSE x \in S : \A y \in S : y <= x

\* number of edges of the longest simple path that starts at v and avoids used
RECURSIVE Longest(_, _)
Longest(v, used) ==
    LET next == Range(Adj(v)) \ used
    IN IF next = {} THEN 0
       ELSE SetMax({1 + Longest(n, used \cup {n}) : n \in next})

LongestSimplePath(start) == Longest(start, {start})

\* textbook recursive pre-order, neighbors in adjacency order
RECURSIVE PreVisit(_, _)
RECURSIVE PreEach(_, _, _)
PreVisit(v, order) == PreEach(Adj(v), 1, Append(order, v))
PreEach(ns, k, order) ==
    IF k > Len(ns) THEN order
    ELSE PreEach(ns, k + 1,
                 IF ns[k] \in Range(order) THEN order ELSE PreVisit(ns[k], order))

PreOrder(start) == PreVisit(start, <<>>)

HasDuplicateEdge == \E v \in Vertices : ~NoDuplicates(Adj(v))

HasSelfLoop == \E v \in Vertices : v \in Range(Adj(v))

Returned(op) == pc = "returned" /\ call.op = op

Running == pc \in {"bfs_while", "bfs_for", "dfs"}

Start == call.args[1]

----------------------------------------------------------------------------
\* C1: bfs(start) returns every vertex reachable from start exactly once and
\* no vertex that is not reachable from start.
BfsVisitsReachableOnce ==
    Returned("bfs") =>
        /\ NoDuplicates(result)
        /\ Range(result) = Reachable(Start)

BfsVisitsReachableOnceWitness ==
    /\ Returned("bfs")
    /\ Len(result) >= 3
    /\ DOMAIN adjacencyList \ Range(result) # {}
    /\ HasDuplicateEdge \/ HasSelfLoop

\* C2: the output of bfs(start) is in non-decreasing order of distance from
\* start, and start is its first element.
BfsLayered ==
    Returned("bfs") =>
        /\ Len(result) >= 1
        /\ result[1] = Start
        /\ \A k \in 1..Len(result), l \in 1..Len(result) :
              k < l => /\ Dist(Start, result[k]) >= 0
                       /\ Dist(Start, result[k]) <= Dist(Start, result[l])

BfsLayeredWitness ==
    /\ Returned("bfs")
    /\ Len(result) = 4
    /\ Dist(Start, result[2]) = 1
    /\ Dist(Start, result[3]) = 1
    /\ Dist(Start, result[4]) = 2
    /\ result[4] \in Range(Adj(result[3]))

\* C3: dfs(start) returns every vertex reachable from start exactly once, in
\* the pre-order of a depth-first traversal that takes neighbors in adjacency
\* order and skips the visited ones.
DfsPreOrder ==
    Returned("dfs") =>
        /\ NoDuplicates(result)
        /\ Range(result) = Reachable(Start)
        /\ result = PreOrder(Start)

DfsPreOrderWitness ==
    /\ Returned("dfs")
    /\ Len(result) >= 3
    /\ Len(Adj(Start)) >= 2
    /\ result[3] \notin Range(Adj(Start))
    /\ HasDuplicateEdge \/ HasSelfLoop \/ Start \in Range(Adj(result[2]))

\* C4: addEdge(a, b, directed) gives a and b entries, appends b to a's
\* neighbors, appends a to b's neighbors iff directed is false, and leaves
\* every other neighbor sequence as it was.
AddEdgeEffect ==
    [][\A a \in Vertices, b \in Vertices, d \in BOOLEAN :
          call' = [op |-> "addEdge", args |-> <<a, b, d>>] =>
              /\ DOMAIN adjacencyList' = DOMAIN adjacencyList \cup {a, b}
              /\ \A v \in DOMAIN adjacencyList' :
                    adjacencyList'[v] =
                        Adj(v) \o (IF v = a THEN <<b>> ELSE <<>>)
                               \o (IF v = b /\ ~d THEN <<a>> ELSE <<>>)]_vars

AddEdgeEffectWitness ==
    /\ Returned("addEdge")
    /\ call.args[3] = TRUE
    /\ call.args[1] # call.args[2]
    /\ Len(Adj(call.args[1])) >= 2
    /\ call.args[1] \notin Range(Adj(call.args[2]))

\* C5: addVertex(v) on a vertex that has an entry changes nothing, on a vertex
\* without one it adds an entry bound to the empty sequence and changes
\* nothing else; calling it twice gives the state of calling it once.
AddVertexIdempotent ==
    /\ [](\A v \in Vertices :
            addVertex(addVertex(adjacencyList, v), v) = addVertex(adjacencyList, v))
    /\ [][\A v \in Vertices :
            call' = [op |-> "addVertex", args |-> <<v>>] =>
                IF v \in DOMAIN adjacencyList
                THEN adjacencyList' = adjacencyList
                ELSE /\ DOMAIN adjacencyList' = DOMAIN adjacencyList \cup {v}
                     /\ adjacencyList'[v] = <<>>
                     /\ \A w \in DOMAIN adjacencyList :
                           adjacencyList'[w] = adjacencyList[w]]_vars

AddVertexIdempotentWitness ==
    /\ Returned("addVertex")
    /\ Len(Adj(call.args[1])) >= 2

\* C6: getAdjacencyMatrix() returns every vertex of the graph exactly once and
\* a square 0/1 matrix of that size with matrix[i][j] = 1 iff vertices[j]
\* occurs among the neighbors of vertices[i].
MatrixMatchesList ==
    Returned("getAdjacencyMatrix") =>
        /\ Range(vertices) = DOMAIN adjacencyList
        /\ NoDuplicates(vertices)
        /\ Len(matrix) = Len(vertices)
        /\ \A r \in 1..Len(vertices) :
              /\ Len(matrix[r]) = Len(vertices)
              /\ \A c \in 1..Len(vertices) :
                    /\ matrix[r][c] \in {0, 1}
                    /\ matrix[r][c] = 1 <=> vertices[c] \in Range(Adj(vertices[r]))

MatrixMatchesListWitness ==
    /\ Returned("getAdjacencyMatrix")
    /\ Len(vertices) >= 3
    /\ HasDuplicateEdge
    /\ \E r \in 1..Len(vertices), c \in 1..Len(vertices) : matrix[r][c] = 0

\* C7: the vertex sequence returned by getAdjacencyMatrix() is in ascending
\* order of the identifiers; the identifiers here are numbers, whose
\* comparison is the numeric one.
VerticesAscending ==
    Returned("getAdjacencyMatrix") =>
        \A k \in 1..Len(vertices), l \in 1..Len(vertices) :
            k < l => vertices[k] < vertices[l]

\* C8: bfs(start) and dfs(start) from a start without an adjacency entry
\* return <<start>> and create no entry.
MissingStartSingleton ==
    [][(call'.op \in {"bfs", "dfs"}) =>
          /\ adjacencyList' = adjacencyList
          /\ (pc' = "returned" /\ call'.args[1] \notin DOMAIN adjacencyList)
                => result' = <<call'.args[1]>>]_vars

MissingStartSingletonWitness ==
    /\ Returned("bfs")
    /\ Start \notin DOMAIN adjacencyList
    /\ HasSelfLoop
    /\ result = <<Start>>

\* C9: every bfs and dfs call returns.
TraversalTerminates == Running ~> (pc = "returned")

TraversalTerminatesWitness ==
    /\ pc = "bfs_while"
    /\ \E v \in Vertices : /\ Occurrences(queue, v) >= 2
                            /\ Start \in Range(Adj(v))

\* C10 as stated: the number of active dfsHelper calls never exceeds the
\* length (edge count) of the longest simple path from start.
DepthWithinLongestPath ==
    pc = "dfs" => Len(stack) <= LongestSimplePath(Start)

\* C10 amended: the number of active dfsHelper calls never exceeds one plus
\* the length of the longest simple path from start, i.e. the number of
\* vertices on it.
DepthWithinLongestPathPlusOne ==
    pc = "dfs" => Len(stack) <= LongestSimplePath(Start) + 1

DepthWithinLongestPathPlusOneWitness ==
    /\ pc = "dfs"
    /\ Len(stack) = 4
    /\ Len(stack) = LongestSimplePath(Start) + 1
====
